---- MODULE Spec2Model ----
(***************************************************************************)
(* Legislative monitor: the bill search (fetch_bills), the alert generator *)
(* (generate_compliance_alert), the command-line pipeline (main /          *)
(* process_bills) and the Airflow DAG (legislative_monitor_dag.py).        *)
(*                                                                         *)
(* Python values are encoded uniformly so that TLC can compare them:       *)
(*   - a dict key that is absent is a FALSE "has..." flag or the string    *)
(*     MISSING; Python None / JSON null is the string NULL or kind "null"; *)
(*   - an exception is a record field raised |-> TRUE with its str().      *)
(***************************************************************************)
EXTENDS Integers, Sequences, FiniteSets, TLC

\* Largest number of edges the API puts in one response of the model.
MaxBills == 2

\* default_args['retries'] of the DAG
Retries == 2

MISSING == "<missing>"
NULL == "<null>"

(***************************************************************************)
(* Bills, as the API returns them (the node of an edge).                   *)
(***************************************************************************)
Jurisdictions ==
    << "ocd-jurisdiction/country:us/state:ca/government",
       "ocd-jurisdiction/country:us/state:al/government" >>

SearchTerms == << "cryptocurrency", "digital asset", "blockchain" >>

\* search_term = None of _get_bills_query: no searchQuery filter.
NoTerm == "<unfiltered>"

\* The 'sources' value of a node: the key may be absent, the list empty, a
\* source may lack its 'url' key.
OkSources ==
    << [hasUrl |-> TRUE, url |-> "https://a/1"], [hasUrl |-> TRUE, url |-> "https://a/2"] >>

SourceLists ==
    { <<>>,
      OkSources,
      << [hasUrl |-> FALSE, url |-> MISSING], [hasUrl |-> TRUE, url |-> "https://a/2"] >> }

\* What a node looks like, the id left out: the id is given by the jurisdiction
\* queried and the node's position in the response.
BillShapes ==
    [ title : {"Bill A"}, hasSources : {TRUE}, sources : SourceLists ]
    \cup [ title : {"Bill A"}, hasSources : {FALSE}, sources : {<<>>} ]
    \cup [ title : {MISSING}, hasSources : {TRUE}, sources : {OkSources} ]

SeqsUpTo(S, n) == UNION { [1..k -> S] : k \in 0..n }

Batches == SeqsUpTo(BillShapes, MaxBills) \ { <<>> }

\* _get_bills_query(jurisdiction, search_term, limit)
GetBillsQuery(jurisdiction, search_term, limit) ==
    [ jurisdiction |-> jurisdiction, search_term |-> search_term, limit |-> limit ]

\* The node the API returns at position n of the response to query q.
NodeOf(q, shape, n) ==
    [ id |-> << q.jurisdiction, n >>,
      title |-> shape.title,
      hasSources |-> shape.hasSources,
      sources |-> shape.sources ]

(***************************************************************************)
(* The GraphQL client and the response handling of fetch_bills.            *)
(***************************************************************************)
\* A response: Python None, or a dict with the given keys; 'bills' is null or
\* a dict with the given keys; 'edges' is null or a list of edges.
Result(isNone, keys, billsNull, billsKeys, edgesNull, edges) ==
    [ isNone |-> isNone, keys |-> keys, billsNull |-> billsNull,
      billsKeys |-> billsKeys, edgesNull |-> edgesNull, edges |-> edges ]

NoneResult == Result(TRUE, {}, FALSE, {}, FALSE, <<>>)

Edges(q, batch) ==
    [ n \in 1..Len(batch) |-> [ hasNode |-> TRUE, node |-> NodeOf(q, batch[n], n) ] ]

\* The same edges, the last one without its 'node' key.
EdgesLackingNode(q, batch) ==
    [ n \in 1..Len(batch) |->
        [ hasNode |-> (n < Len(batch)), node |-> NodeOf(q, batch[n], n) ] ]

\* What graphql_client.execute can do for query q: raise (transport error,
\* GraphQL error), or return a document.
ApiReplies(q) ==
    { [ raises |-> TRUE, data |-> NoneResult ] }
    \cup { [ raises |-> FALSE, data |-> d ] : d \in
            { Result(FALSE, {}, FALSE, {}, FALSE, <<>>),                 \* {}
              Result(FALSE, {"errors"}, FALSE, {}, FALSE, <<>>),         \* no 'bills'
              Result(FALSE, {"bills"}, TRUE, {}, FALSE, <<>>),           \* bills: null
              Result(FALSE, {"bills"}, FALSE, {"pageInfo"}, FALSE, <<>>),\* no 'edges'
              Result(FALSE, {"bills"}, FALSE, {"edges"}, TRUE, <<>>),    \* edges: null
              Result(FALSE, {"bills"}, FALSE, {"edges"}, FALSE, <<>>) }  \* edges: []
            \cup { Result(FALSE, {"bills"}, FALSE, {"edges"}, FALSE, Edges(q, b)) :
                     b \in Batches }
            \cup { Result(FALSE, {"bills"}, FALSE, {"edges"}, FALSE,
                          EdgesLackingNode(q, b)) : b \in Batches } }

\* _execute_graphql_query: the document, or None when execute raised.
ExecuteGraphqlQuery(reply) ==
    IF reply.raises THEN NoneResult ELSE reply.data

\* Python truthiness of a response: None and {} are falsy.
Truthy(result) == ~result.isNone /\ result.keys # {}

\* `if result and "bills" in result and "edges" in result["bills"]:
\*      bills = [edge["node"] for edge in result["bills"]["edges"]]`
\* The bills list (empty when the condition is false), or the exception the
\* evaluation raises.
BillsOfResult(result) ==
    IF ~Truthy(result) \/ "bills" \notin result.keys
      THEN [ raised |-> FALSE, error |-> "", bills |-> <<>> ]
    ELSE IF result.billsNull
      THEN [ raised |-> TRUE, bills |-> <<>>,
             error |-> "argument of type 'NoneType' is not iterable" ]
    ELSE IF "edges" \notin result.billsKeys
      THEN [ raised |-> FALSE, error |-> "", bills |-> <<>> ]
    ELSE IF result.edgesNull
      THEN [ raised |-> TRUE, bills |-> <<>>,
             error |-> "'NoneType' object is not iterable" ]
    ELSE IF \E n \in 1..Len(result.edges) : ~result.edges[n].hasNode
      THEN [ raised |-> TRUE, bills |-> <<>>, error |-> "'node'" ]
    ELSE [ raised |-> FALSE, error |-> "",
           bills |-> [ n \in 1..Len(result.edges) |-> result.edges[n].node ] ]

(***************************************************************************)
(* Content fetcher and alert generator.                                    *)
(***************************************************************************)
\* What requests.get + BeautifulSoup can do for a URL.
HttpReplies ==
    { [ raises |-> TRUE, text |-> "" ],          \* transport error, 4xx/5xx, parse error
      [ raises |-> FALSE, text |-> "" ],         \* a page without text
      [ raises |-> FALSE, text |-> "bill text" ] }

\* fetch_bill_content
FetchBillContent(reply) == IF reply.raises THEN "" ELSE reply.text

AlertKeys == { "title", "summary", "deadline", "action_required", "severity" }

Alert(kind, title, summary, deadline, action_required, severity) ==
    [ kind |-> kind, title |-> title, summary |-> summary, deadline |-> deadline,
      action_required |-> action_required, severity |-> severity ]

\* Python None (the 'alert' of an outcome without alert, or a parsed JSON null).
None == Alert("null", MISSING, MISSING, MISSING, MISSING, MISSING)

\* The documents the model is taken to answer with.
JsonHigh == "{title:T,summary:S,deadline:D,action_required:A,severity:High}"
JsonMedium == "{title:T,summary:S,deadline:D,action_required:A,severity:Medium}"
JsonPartial == "{title:T}"
JsonNullField == "{title:T,summary:null,deadline:D,action_required:A,severity:Low}"
JsonNull == "null"
JsonArray == "[]"
NotJson == "Sorry, I cannot"

\* What llm.chat_completion can do: raise, or return a completion whose
\* message content is a text, or None.
LlmReplies ==
    { [ raises |-> TRUE, content |-> NULL ] }
    \cup { [ raises |-> FALSE, content |-> c ] :
             c \in { JsonHigh, JsonMedium, JsonPartial, JsonNullField, JsonNull,
                     JsonArray, NotJson, NULL } }

\* json.loads
JsonLoads(text) ==
    CASE text = JsonHigh ->
           [ raised |-> FALSE, value |-> Alert("object", "T", "S", "D", "A", "High") ]
      [] text = JsonMedium ->
           [ raised |-> FALSE, value |-> Alert("object", "T", "S", "D", "A", "Medium") ]
      [] text = JsonPartial ->
           [ raised |-> FALSE,
             value |-> Alert("object", "T", MISSING, MISSING, MISSING, MISSING) ]
      [] text = JsonNullField ->
           [ raised |-> FALSE, value |-> Alert("object", "T", NULL, "D", "A", "Low") ]
      [] text = JsonNull -> [ raised |-> FALSE, value |-> None ]
      [] text = JsonArray ->
           [ raised |-> FALSE,
             value |-> Alert("array", MISSING, MISSING, MISSING, MISSING, MISSING) ]
      [] OTHER -> [ raised |-> TRUE, value |-> None ]   \* JSONDecodeError, TypeError

\* The fallback with a fixed title in place of the bill's title.
FallbackAlertFixedTitle(bill_title) ==
    Alert("object", "Unknown", "Unable to generate summary", "Unknown",
          "Review manually", "Unknown")

\* The except branch of generate_compliance_alert.
FallbackAlert(bill_title) ==
    Alert("object", bill_title, "Unable to generate summary", "Unknown",
          "Review manually", "Unknown")

\* generate_compliance_alert(bill_title, bill_content), the model answering
\* with reply.
GenerateComplianceAlert(bill_title, bill_content, reply) ==
    IF reply.raises
      THEN FallbackAlert(bill_title)
      ELSE LET parsed == JsonLoads(reply.content)
           IN  IF parsed.raised THEN FallbackAlert(bill_title) ELSE parsed.value

\* bill.get('title', 'Unknown')
TitleOf(bill) == IF bill.title = MISSING THEN "Unknown" ELSE bill.title

\* bill.get('sources') is truthy
HasSources(bill) == bill.hasSources /\ Len(bill.sources) > 0

(***************************************************************************)
(* Credentials and the construction of a LegislativeMonitor.               *)
(***************************************************************************)
Credentials == { "OPENSTATES_KEY", "OPENAI_API_KEY" }

\* Where a credential is set: in the process environment, only as an Airflow
\* Variable, or nowhere.
Places == { "env", "variable", "none" }

VARIABLES
    mode,            \* "cli": python legislative_monitor.py; "dag": one DAG run
    env,             \* where each credential is set
    pc,              \* position of the sequential code that is running
    exit_code,       \* of the command-line process; -1 while it runs
    taskState,       \* state of each task instance of the DAG run
    tries,           \* attempts started, per task
    fj, ft,          \* fetch_bills: jurisdiction index, term index (0: unfiltered)
    queried,         \* the queries fetch_bills has issued, in order
    answers,         \* per issued query, the bills its response yielded
    delays,          \* time.sleep(RATE_LIMIT_DELAY) calls made by fetch_bills
    fetched,         \* the value fetch_bills returned
    error,           \* str() of the exception that is propagating
    idx,             \* index of the bill the per-bill loop is at
    processed_bills, \* process_bills_task: the outcomes so far
    stdout,          \* process_bills: what it printed per bill
    events,          \* external calls and sleeps of the per-bill loop, in order
    xcom,            \* return values of the DAG's tasks
    reports,         \* files written under /opt/airflow/reports
    externalCalls    \* kinds of external call issued in this run

vars == << mode, env, pc, exit_code, taskState, tries, fj, ft, queried, answers,
           delays, fetched, error, idx, processed_bills, stdout, events, xcom,
           reports, externalCalls >>

fetchVars == << fj, ft, queried, answers, delays, fetched >>
loopVars == << idx, processed_bills, stdout, events >>

\* os.getenv(var) is truthy
Getenv(var) == env[var] = "env"

\* Variable.get(var, default_var=None) is truthy
VariableGet(var) == env[var] = "variable"

\* LLMClient(): OpenAI(api_key=None) raises when no key is configured.
LLMClientInit ==
    IF Getenv("OPENAI_API_KEY")
      THEN [ raised |-> FALSE, type |-> "", error |-> "" ]
      ELSE [ raised |-> TRUE, type |-> "OpenAIError",
             error |-> "The api_key client option must be set" ]

\* LegislativeMonitor.__init__ without the check of OPENSTATES_KEY and with a
\* client that is built without a key.
MonitorInitUnchecked == [ raised |-> FALSE, type |-> "", error |-> "" ]

\* LegislativeMonitor.__init__
MonitorInit ==
    IF ~Getenv("OPENSTATES_KEY")
      THEN [ raised |-> TRUE, type |-> "ValueError",
             error |-> "OPENSTATES_KEY environment variable is required" ]
      ELSE LLMClientInit

(***************************************************************************)
(* fetch_bills                                                             *)
(***************************************************************************)
\* NextAttempt with the keyword loop left after its first keyword.
NextAttemptLeavesKeywordLoop(j, t) ==
    IF t < 1 THEN [ done |-> FALSE, j |-> j, t |-> t + 1 ]
    ELSE IF j < Len(Jurisdictions) THEN [ done |-> FALSE, j |-> j + 1, t |-> 0 ]
    ELSE [ done |-> TRUE, j |-> j, t |-> t ]

\* The loops of fetch_bills after an attempt at (j, t) that did not return:
\* the next keyword, else the next jurisdiction, else the end of the loops.
NextAttempt(j, t) ==
    IF t < Len(SearchTerms) THEN [ done |-> FALSE, j |-> j, t |-> t + 1 ]
    ELSE IF j < Len(Jurisdictions) THEN [ done |-> FALSE, j |-> j + 1, t |-> 0 ]
    ELSE [ done |-> TRUE, j |-> j, t |-> t ]

\* fetch_bills is over: its locals and the record of its attempts are gone.
EndFetch ==
    /\ fj' = 1 /\ ft' = 0
    /\ queried' = <<>> /\ answers' = <<>>
    /\ delays' = 0

\* Entry of fetch_bills.
StartFetch ==
    /\ fj' = 1 /\ ft' = 0
    /\ queried' = <<>> /\ answers' = <<>>
    /\ delays' = 0
    /\ fetched' = <<>>

\* Attempt with time.sleep(RATE_LIMIT_DELAY) placed before the test of the
\* response, so that the attempt that returns the bills sleeps too.
AttemptSleepsBeforeReturn(q, reply) ==
    LET r == BillsOfResult(ExecuteGraphqlQuery(reply))
        next == NextAttempt(fj, ft)
    IN  /\ queried' = Append(queried, q)
        /\ answers' = Append(answers, r.bills)
        /\ externalCalls' = externalCalls \cup {"search"}
        /\ IF r.raised
             THEN /\ pc' = "fetch_raised"
                  /\ error' = r.error
                  /\ UNCHANGED << fj, ft, delays, fetched >>
           ELSE IF r.bills # <<>>
             THEN /\ delays' = delays + 1
                  /\ pc' = "fetch_returned"
                  /\ fetched' = r.bills
                  /\ UNCHANGED << fj, ft, error >>
           ELSE /\ delays' = delays + 1
                /\ fj' = next.j /\ ft' = next.t
                /\ pc' = IF next.done THEN "fetch_returned" ELSE "fetch_bills"
                /\ fetched' = <<>>
                /\ UNCHANGED error

\* One attempt of fetch_bills with query q answered by reply: return the bills,
\* or raise, or sleep and go on to the next attempt (return [] after the last).
Attempt(q, reply) ==
    LET r == BillsOfResult(ExecuteGraphqlQuery(reply))
        next == NextAttempt(fj, ft)
    IN  /\ queried' = Append(queried, q)
        /\ answers' = Append(answers, r.bills)
        /\ externalCalls' = externalCalls \cup {"search"}
        /\ IF r.raised
             THEN /\ pc' = "fetch_raised"
                  /\ error' = r.error
                  /\ UNCHANGED << fj, ft, delays, fetched >>
           ELSE IF r.bills # <<>>
             THEN /\ pc' = "fetch_returned"
                  /\ fetched' = r.bills
                  /\ UNCHANGED << fj, ft, delays, error >>
           ELSE /\ delays' = delays + 1
                /\ fj' = next.j /\ ft' = next.t
                /\ pc' = IF next.done THEN "fetch_returned" ELSE "fetch_bills"
                /\ fetched' = <<>>
                /\ UNCHANGED error

\* Lines 98-107: the query without search term, limit 5.
QueryUnfiltered ==
    /\ pc = "fetch_bills" /\ ft = 0
    /\ LET q == GetBillsQuery(Jurisdictions[fj], NoTerm, 5)
       IN  \E reply \in ApiReplies(q) : Attempt(q, reply)
    /\ UNCHANGED << mode, env, exit_code, taskState, tries, loopVars, xcom, reports >>

\* Lines 110-121: the query with the next search term, limit 10.
QueryKeyword ==
    /\ pc = "fetch_bills" /\ ft > 0
    /\ LET q == GetBillsQuery(Jurisdictions[fj], SearchTerms[ft], 10)
       IN  \E reply \in ApiReplies(q) : Attempt(q, reply)
    /\ UNCHANGED << mode, env, exit_code, taskState, tries, loopVars, xcom, reports >>

(***************************************************************************)
(* Per-bill processing.                                                    *)
(***************************************************************************)
\* bill['sources'][0]['url'] with the last source taken for the first.
LastSourceUrl(bill) == bill.sources[Len(bill.sources)].url

\* bill['sources'][0]['url'], the source having a 'url' key.
FirstSourceUrl(bill) == bill.sources[1].url

\* A BillOutcome dict. url and error are MISSING when the dict has no such
\* key; the 'alert' key is always there, None when there is no alert.
Outcome(bill_id, title, status, alert, url, err) ==
    [ bill_id |-> bill_id, title |-> title, status |-> status, alert |-> alert,
      url |-> url, error |-> err ]

\* An entry of the record of calls: the call (op, its argument), the bill whose
\* iteration made it, and what the call gave back: for "fetch" the text
\* fetch_bill_content returned, for "llm" the completion's content (RAISED
\* when chat_completion raised), for "sleep" nothing.
Event(op, n, arg, got) == [ op |-> op, bill |-> n, arg |-> arg, got |-> got ]

RAISED == "<raised>"

\* What the model call gave back, for the record of calls.
GotFromLlm(llm) == IF llm.raises THEN RAISED ELSE llm.content

\* process_single_bill(bill_data, monitor) for the n-th bill, the document
\* source answering with http and the model with llm: the dict it returns or
\* the exception it raises, and the external calls it made.
ProcessSingleBill(bill_data, n, http, llm) ==
    LET bill_id == bill_data.id
        bill_title == TitleOf(bill_data)
    IN  IF ~HasSources(bill_data)
          THEN [ raised |-> FALSE, error |-> "", calls |-> <<>>,
                 result |-> Outcome(bill_id, bill_title, "no_sources", None,
                                    MISSING, MISSING) ]
        ELSE IF ~bill_data.sources[1].hasUrl
          THEN [ raised |-> TRUE, error |-> "'url'", calls |-> <<>>,   \* KeyError
                 result |-> Outcome(bill_id, bill_title, "", None, MISSING, MISSING) ]
        ELSE LET url == FirstSourceUrl(bill_data)
                 content == FetchBillContent(http)
             IN  IF content = ""
                   THEN [ raised |-> FALSE, error |-> "",
                          calls |-> << Event("fetch", n, url, content) >>,
                          result |-> Outcome(bill_id, bill_title, "no_content", None,
                                             MISSING, MISSING) ]
                   ELSE [ raised |-> FALSE, error |-> "",
                          calls |-> << Event("fetch", n, url, content),
                                       Event("llm", n, bill_title, GotFromLlm(llm)) >>,
                          result |-> Outcome(bill_id, bill_title, "processed",
                                       GenerateComplianceAlert(bill_title, content, llm),
                                       url, MISSING) ]

\* The except branch of the loop of process_bills_task.
ErrorOutcome(bill, e) ==
    Outcome(bill.id, TitleOf(bill), "error", None, MISSING, e)

\* The loop of process_bills_task with an except branch that records nothing.
AppendOutcomeDropsFailedBill(outcomes, bill, r) ==
    IF r.raised THEN outcomes ELSE Append(outcomes, r.result)

\* The try/except of the loop of process_bills_task: the outcome appended for
\* bill, process_single_bill having returned or raised r.
AppendOutcome(outcomes, bill, r) ==
    Append(outcomes, IF r.raised THEN ErrorOutcome(bill, r.error) ELSE r.result)

CallKinds(calls) ==
    { IF calls[k].op = "fetch" THEN "fetch" ELSE "llm" : k \in 1..Len(calls) }

(***************************************************************************)
(* The command line: main() and LegislativeMonitor.process_bills.          *)
(***************************************************************************)
\* main(): monitor = LegislativeMonitor(); a ValueError or any other exception
\* ends the process with exit code 1. Otherwise process_bills starts with
\* fetch_bills.
CliMain ==
    /\ mode = "cli" /\ pc = "main"
    /\ IF MonitorInit.raised
         THEN /\ pc' = "exit" /\ exit_code' = 1
              /\ error' = MonitorInit.error
              /\ UNCHANGED fetchVars
         ELSE /\ pc' = "fetch_bills"
              /\ StartFetch
              /\ UNCHANGED << exit_code, error >>
    /\ UNCHANGED << mode, env, taskState, tries, loopVars, xcom, reports, externalCalls >>

\* process_bills lines 165-168: `if not bills: sys.exit(1)`.
CliCheckBills ==
    /\ mode = "cli" /\ pc = "fetch_returned"
    /\ IF fetched = <<>>
         THEN pc' = "exit" /\ exit_code' = 1
         ELSE pc' = "process_loop" /\ UNCHANGED exit_code
    /\ idx' = 1
    /\ EndFetch
    /\ UNCHANGED << mode, env, taskState, tries, fetched, error, processed_bills,
                    stdout, events, xcom, reports, externalCalls >>

\* One iteration of the loop of process_bills (lines 170-186). The two
\* `continue`s skip the sleep at the end of the body.
CliProcessBill ==
    /\ mode = "cli" /\ pc = "process_loop" /\ idx <= Len(fetched)
    /\ LET bill == fetched[idx]
       IN  IF ~HasSources(bill)
             THEN /\ stdout' = Append(stdout, [ bill |-> bill.id, line |-> "no_sources",
                                                alert |-> None ])
                  /\ idx' = idx + 1
                  /\ UNCHANGED << pc, error, events, externalCalls >>
           ELSE IF ~bill.sources[1].hasUrl
             THEN /\ pc' = "loop_raised" /\ error' = "'url'"
                  /\ UNCHANGED << idx, stdout, events, externalCalls >>
           ELSE \E http \in HttpReplies, llm \in LlmReplies :
                  LET url == FirstSourceUrl(bill)
                      content == FetchBillContent(http)
                      alert == GenerateComplianceAlert(TitleOf(bill), content, llm)
                  IN  IF content = ""
                        THEN /\ stdout' = Append(stdout, [ bill |-> bill.id,
                                            line |-> "no_content", alert |-> None ])
                             /\ events' = Append(events, Event("fetch", idx, url, content))
                             /\ externalCalls' = externalCalls \cup {"fetch"}
                             /\ idx' = idx + 1
                             /\ UNCHANGED << pc, error >>
                        ELSE /\ stdout' = Append(stdout, [ bill |-> bill.id,
                                            line |-> "alert", alert |-> alert ])
                             /\ events' = events \o
                                            << Event("fetch", idx, url, content),
                                               Event("llm", idx, TitleOf(bill), GotFromLlm(llm)),
                                               Event("sleep", idx, "", "") >>
                             /\ externalCalls' = externalCalls \cup {"fetch", "llm"}
                             /\ idx' = idx + 1
                             /\ UNCHANGED << pc, error >>
    /\ UNCHANGED << mode, env, exit_code, taskState, tries, fetchVars,
                    processed_bills, xcom, reports >>

\* process_bills returns after the last bill and main() ends: exit code 0.
CliReturn ==
    /\ mode = "cli" /\ pc = "process_loop" /\ idx > Len(fetched)
    /\ pc' = "exit" /\ exit_code' = 0
    /\ UNCHANGED << mode, env, taskState, tries, fetchVars, error, loopVars, xcom,
                    reports, externalCalls >>

\* main() lines 200-202: an exception that left process_bills (from
\* fetch_bills or from the per-bill loop) ends the process with exit code 1.
CliUnexpectedError ==
    /\ mode = "cli" /\ pc \in { "fetch_raised", "loop_raised" }
    /\ pc' = "exit" /\ exit_code' = 1
    /\ EndFetch
    /\ UNCHANGED << mode, env, taskState, tries, fetched, error, loopVars, xcom,
                    reports, externalCalls >>

(***************************************************************************)
(* The DAG: tasks, their dependencies, and the scheduler's rules.          *)
(***************************************************************************)
Tasks == { "check_environment", "initialize_monitor", "fetch_bills", "process_bills",
           "save_results", "generate_summary", "cleanup" }

\* The dependencies with `save_results >> cleanup` in place of
\* `output_group >> cleanup`.
UpstreamCleanupAfterSaveOnly(t) ==
    CASE t = "check_environment" -> {}
      [] t = "initialize_monitor" -> { "check_environment" }
      [] t = "fetch_bills" -> { "initialize_monitor" }
      [] t = "process_bills" -> { "fetch_bills" }
      [] t = "save_results" -> { "process_bills" }
      [] t = "generate_summary" -> { "process_bills" }
      [] t = "cleanup" -> { "save_results" }

\* check_env >> init_monitor >> data_fetching_group
\* data_fetching_group >> data_processing_group >> output_group >> cleanup
Upstream(t) ==
    CASE t = "check_environment" -> {}
      [] t = "initialize_monitor" -> { "check_environment" }
      [] t = "fetch_bills" -> { "initialize_monitor" }
      [] t = "process_bills" -> { "fetch_bills" }
      [] t = "save_results" -> { "process_bills" }
      [] t = "generate_summary" -> { "process_bills" }
      [] t = "cleanup" -> { "save_results", "generate_summary" }

\* A task instance may start: it has not run (or waits for its retry) and all
\* its upstream tasks succeeded (trigger rule all_success, the default).
Ready(t) ==
    /\ mode = "dag"
    /\ taskState[t] \in { "none", "up_for_retry" }
    /\ \A u \in Upstream(t) : taskState[u] = "success"

\* The state of a task whose n-th attempt raised: default_args['retries'].
AfterRaise(n) == IF n <= Retries THEN "up_for_retry" ELSE "failed"

\* A task never runs when an upstream task failed.
UpstreamFailed ==
    /\ mode = "dag"
    /\ \E t \in Tasks :
         /\ taskState[t] = "none"
         /\ \E u \in Upstream(t) : taskState[u] \in { "failed", "upstream_failed" }
         /\ taskState' = [ taskState EXCEPT ![t] = "upstream_failed" ]
    /\ UNCHANGED << mode, env, pc, exit_code, tries, fetchVars, error, loopVars, xcom,
                    reports, externalCalls >>

\* check_environment_variables
CheckEnvironmentVariables ==
    /\ Ready("check_environment")
    /\ LET required_vars == { "OPENSTATES_KEY", "OPENAI_API_KEY" }
           missing_vars == { var \in required_vars : ~Getenv(var) /\ ~VariableGet(var) }
           n == tries["check_environment"] + 1
       IN  /\ tries' = [ tries EXCEPT !["check_environment"] = n ]
           /\ IF missing_vars # {}
                THEN /\ taskState' = [ taskState EXCEPT
                                         !["check_environment"] = AfterRaise(n) ]
                     /\ error' = "Missing required environment variables"
                ELSE /\ taskState' = [ taskState EXCEPT !["check_environment"] = "success" ]
                     /\ UNCHANGED error
    /\ UNCHANGED << mode, env, pc, exit_code, fetchVars, loopVars, xcom, reports,
                    externalCalls >>

\* initialize_monitor
InitializeMonitor ==
    /\ Ready("initialize_monitor")
    /\ LET n == tries["initialize_monitor"] + 1
       IN  /\ tries' = [ tries EXCEPT !["initialize_monitor"] = n ]
           /\ IF MonitorInit.raised
                THEN /\ taskState' = [ taskState EXCEPT
                                         !["initialize_monitor"] = AfterRaise(n) ]
                     /\ error' = "Failed to initialize LegislativeMonitor"
                ELSE /\ taskState' = [ taskState EXCEPT !["initialize_monitor"] = "success" ]
                     /\ UNCHANGED error
    /\ UNCHANGED << mode, env, pc, exit_code, fetchVars, loopVars, xcom, reports,
                    externalCalls >>

\* fetch_bills_task, up to the call of monitor.fetch_bills().
FetchBillsTaskBegin ==
    /\ Ready("fetch_bills")
    /\ LET n == tries["fetch_bills"] + 1
       IN  /\ tries' = [ tries EXCEPT !["fetch_bills"] = n ]
           /\ IF MonitorInit.raised
                THEN /\ taskState' = [ taskState EXCEPT !["fetch_bills"] = AfterRaise(n) ]
                     /\ error' = MonitorInit.error
                     /\ UNCHANGED << pc, fetchVars >>
                ELSE /\ taskState' = [ taskState EXCEPT !["fetch_bills"] = "running" ]
                     /\ pc' = "fetch_bills"
                     /\ StartFetch
                     /\ UNCHANGED error
    /\ UNCHANGED << mode, env, exit_code, loopVars, xcom, reports, externalCalls >>

\* fetch_bills_task after fetch_bills: the bills (or []) are the task's return
\* value; an exception that left fetch_bills fails the attempt.
FetchBillsTaskEnd ==
    /\ mode = "dag" /\ pc \in { "fetch_returned", "fetch_raised" }
    /\ pc' = "idle"
    /\ IF pc = "fetch_raised"
         THEN /\ taskState' = [ taskState EXCEPT
                                  !["fetch_bills"] = AfterRaise(tries["fetch_bills"]) ]
              /\ UNCHANGED xcom
         ELSE /\ taskState' = [ taskState EXCEPT !["fetch_bills"] = "success" ]
              /\ xcom' = [ xcom EXCEPT !.fetch_bills = fetched ]
    /\ EndFetch /\ fetched' = <<>>
    /\ UNCHANGED << mode, env, exit_code, tries, error, loopVars, reports,
                    externalCalls >>

\* process_bills_task up to its loop: `if not bills: return []`, then the
\* monitor is constructed.
ProcessBillsTaskBegin ==
    /\ Ready("process_bills")
    /\ LET bills == xcom.fetch_bills
           n == tries["process_bills"] + 1
       IN  /\ tries' = [ tries EXCEPT !["process_bills"] = n ]
           /\ IF bills = <<>>
                THEN /\ taskState' = [ taskState EXCEPT !["process_bills"] = "success" ]
                     /\ xcom' = [ xcom EXCEPT !.process_bills = <<>> ]
                     /\ UNCHANGED << pc, error, loopVars >>
              ELSE IF MonitorInit.raised
                THEN /\ taskState' = [ taskState EXCEPT !["process_bills"] = AfterRaise(n) ]
                     /\ error' = MonitorInit.error
                     /\ UNCHANGED << pc, xcom, loopVars >>
              ELSE /\ taskState' = [ taskState EXCEPT !["process_bills"] = "running" ]
                   /\ pc' = "process_loop"
                   /\ idx' = 1 /\ processed_bills' = <<>> /\ events' = <<>>
                   /\ UNCHANGED << error, xcom, stdout >>
    /\ UNCHANGED << mode, env, exit_code, fetchVars, reports, externalCalls >>

\* One iteration of the loop of process_bills_task: process_single_bill, and
\* the except branch that records an 'error' outcome.
DagProcessBill ==
    /\ mode = "dag" /\ pc = "process_loop" /\ idx <= Len(xcom.fetch_bills)
    /\ \E http \in HttpReplies, llm \in LlmReplies :
         LET bill == xcom.fetch_bills[idx]
             r == ProcessSingleBill(bill, idx, http, llm)
         IN  /\ processed_bills' = AppendOutcome(processed_bills, bill, r)
             /\ events' = events \o r.calls
             /\ externalCalls' = externalCalls \cup CallKinds(r.calls)
    /\ idx' = idx + 1
    /\ UNCHANGED << mode, env, pc, exit_code, taskState, tries, fetchVars, error,
                    stdout, xcom, reports >>

\* process_bills_task returns processed_bills after the last bill.
ProcessBillsTaskEnd ==
    /\ mode = "dag" /\ pc = "process_loop" /\ idx > Len(xcom.fetch_bills)
    /\ pc' = "idle"
    /\ taskState' = [ taskState EXCEPT !["process_bills"] = "success" ]
    /\ xcom' = [ xcom EXCEPT !.process_bills = processed_bills ]
    /\ UNCHANGED << mode, env, exit_code, tries, fetchVars, error, loopVars, reports,
                    externalCalls >>

(***************************************************************************)
(* Output tasks.                                                           *)
(***************************************************************************)
\* b.get('alert', {}).get(...): the 'alert' key is always present, so the
\* default {} is never used; .get on None or on a list raises AttributeError.
AlertGetRaises(b) == b.alert.kind # "object"

\* alert.get('action_required', 'Review required') inside the f-string.
ActionRequiredOf(alert) ==
    IF alert.action_required = MISSING THEN "Review required"
    ELSE IF alert.action_required = NULL THEN "None"
    ELSE alert.action_required

IsHigh(b) == b.alert.severity = "High"

RECURSIVE HighLines(_)
\* The "- title: action" lines of the summary, in the order of the outcomes.
HighLines(bs) ==
    IF bs = <<>> THEN <<>>
    ELSE IF IsHigh(Head(bs))
      THEN << [ title |-> Head(bs).title, action |-> ActionRequiredOf(Head(bs).alert) ] >>
           \o HighLines(Tail(bs))
    ELSE HighLines(Tail(bs))

\* generate_summary_report for a non-empty list of outcomes: the summary it
\* writes, or the exception it raises.
GenerateSummaryReport(bs) ==
    IF \E k \in 1..Len(bs) : AlertGetRaises(bs[k])
      THEN [ raised |-> TRUE, total |-> 0, high |-> 0, medium |-> 0, lines |-> <<>> ]
      ELSE [ raised |-> FALSE,
             total |-> Len(bs),
             high |-> Cardinality({ k \in 1..Len(bs) : IsHigh(bs[k]) }),
             medium |-> Cardinality({ k \in 1..Len(bs) :
                                        bs[k].alert.severity = "Medium" }),
             lines |-> HighLines(bs) ]

SaveResultsBegin ==
    /\ Ready("save_results")
    /\ taskState' = [ taskState EXCEPT !["save_results"] = "running" ]
    /\ tries' = [ tries EXCEPT !["save_results"] = @ + 1 ]
    /\ UNCHANGED << mode, env, pc, exit_code, fetchVars, error, loopVars, xcom,
                    reports, externalCalls >>

\* save_results_task: nothing is written for an empty list.
SaveResultsEnd ==
    /\ mode = "dag" /\ taskState["save_results"] = "running"
    /\ taskState' = [ taskState EXCEPT !["save_results"] = "success" ]
    /\ reports' = IF xcom.process_bills = <<>>
                    THEN reports
                    ELSE [ reports EXCEPT !.alerts = Append(@, xcom.process_bills) ]
    /\ UNCHANGED << mode, env, pc, exit_code, tries, fetchVars, error, loopVars, xcom,
                    externalCalls >>

GenerateSummaryBegin ==
    /\ Ready("generate_summary")
    /\ taskState' = [ taskState EXCEPT !["generate_summary"] = "running" ]
    /\ tries' = [ tries EXCEPT !["generate_summary"] = @ + 1 ]
    /\ UNCHANGED << mode, env, pc, exit_code, fetchVars, error, loopVars, xcom,
                    reports, externalCalls >>

\* generate_summary_report: "No bills processed" for an empty list.
GenerateSummaryEnd ==
    /\ mode = "dag" /\ taskState["generate_summary"] = "running"
    /\ LET bs == xcom.process_bills
           r == GenerateSummaryReport(bs)
       IN  IF bs = <<>>
             THEN /\ taskState' = [ taskState EXCEPT !["generate_summary"] = "success" ]
                  /\ UNCHANGED << reports, error >>
           ELSE IF r.raised
             THEN /\ taskState' = [ taskState EXCEPT !["generate_summary"] =
                                      AfterRaise(tries["generate_summary"]) ]
                  /\ error' = "object has no attribute 'get'"
                  /\ UNCHANGED reports
           ELSE /\ taskState' = [ taskState EXCEPT !["generate_summary"] = "success" ]
                /\ reports' = [ reports EXCEPT !.summaries = Append(@,
                                  [ total |-> r.total, high |-> r.high,
                                    medium |-> r.medium, lines |-> r.lines ]) ]
                /\ UNCHANGED error
    /\ UNCHANGED << mode, env, pc, exit_code, tries, fetchVars, loopVars, xcom,
                    externalCalls >>

\* The cleanup BashOperator: two echo commands.
Cleanup ==
    /\ Ready("cleanup")
    /\ taskState' = [ taskState EXCEPT !["cleanup"] = "success" ]
    /\ tries' = [ tries EXCEPT !["cleanup"] = @ + 1 ]
    /\ UNCHANGED << mode, env, pc, exit_code, fetchVars, error, loopVars, xcom,
                    reports, externalCalls >>

(***************************************************************************)
(* The system.                                                             *)
(***************************************************************************)
Init ==
    /\ mode \in { "cli", "dag" }
    /\ env \in [ Credentials -> Places ]
    /\ mode = "cli" => \A c \in Credentials : env[c] # "variable"
    /\ pc = IF mode = "cli" THEN "main" ELSE "idle"
    /\ exit_code = -1
    /\ taskState = [ t \in Tasks |-> "none" ]
    /\ tries = [ t \in Tasks |-> 0 ]
    /\ fj = 1 /\ ft = 0
    /\ queried = <<>> /\ answers = <<>>
    /\ delays = 0
    /\ fetched = <<>>
    /\ error = ""
    /\ idx = 1
    /\ processed_bills = <<>>
    /\ stdout = <<>>
    /\ events = <<>>
    /\ xcom = [ fetch_bills |-> <<>>, process_bills |-> <<>> ]
    /\ reports = [ alerts |-> <<>>, summaries |-> <<>> ]
    /\ externalCalls = {}

Next ==
    \/ QueryUnfiltered
    \/ QueryKeyword
    \/ CliMain
    \/ CliCheckBills
    \/ CliProcessBill
    \/ CliReturn
    \/ CliUnexpectedError
    \/ UpstreamFailed
    \/ CheckEnvironmentVariables
    \/ InitializeMonitor
    \/ FetchBillsTaskBegin
    \/ FetchBillsTaskEnd
    \/ ProcessBillsTaskBegin
    \/ DagProcessBill
    \/ ProcessBillsTaskEnd
    \/ SaveResultsBegin
    \/ SaveResultsEnd
    \/ GenerateSummaryBegin
    \/ GenerateSummaryEnd
    \/ Cleanup

Spec == Init /\ [][Next]_vars

\* The run is over: the process exited, or the DAG run's last task is settled.
RunStatus ==
    IF mode = "cli"
      THEN IF pc # "exit" THEN "running"
           ELSE IF exit_code = 0 THEN "success" ELSE "failed"
      ELSE IF taskState["cleanup"] = "success" THEN "success"
           ELSE IF taskState["cleanup"] \in { "failed", "upstream_failed" } THEN "failed"
           ELSE "running"

(***************************************************************************)
(* Properties of fetch_bills.                                              *)
(***************************************************************************)
Combination(jurisdiction, search_term) ==
    [ jurisdiction |-> jurisdiction, search_term |-> search_term ]

\* The priority order of the search space, written out.
PriorityOrder ==
    << Combination("ocd-jurisdiction/country:us/state:ca/government", NoTerm),
       Combination("ocd-jurisdiction/country:us/state:ca/government", "cryptocurrency"),
       Combination("ocd-jurisdiction/country:us/state:ca/government", "digital asset"),
       Combination("ocd-jurisdiction/country:us/state:ca/government", "blockchain"),
       Combination("ocd-jurisdiction/country:us/state:al/government", NoTerm),
       Combination("ocd-jurisdiction/country:us/state:al/government", "cryptocurrency"),
       Combination("ocd-jurisdiction/country:us/state:al/government", "digital asset"),
       Combination("ocd-jurisdiction/country:us/state:al/government", "blockchain") >>

CombinationsQueried ==
    [ k \in 1..Len(queried) |-> Combination(queried[k].jurisdiction, queried[k].search_term) ]

IsPrefix(a, b) == Len(a) <= Len(b) /\ \A k \in 1..Len(a) : a[k] = b[k]

\* C1: the combinations queried so far are always an initial part of the
\* priority order (so each is tried at most once, in that order); a combination
\* whose response yielded bills is always the last one queried (nothing is
\* queried after a success), fetch_bills has then returned, and what it
\* returned is exactly the bills of that combination; and a non-empty return
\* value is always the yield of the last combination queried.
C1_FirstNonEmptyCombinationWins ==
    /\ IsPrefix(CombinationsQueried, PriorityOrder)
    /\ \A k \in 1..Len(answers) :
         answers[k] # <<>> =>
           /\ k = Len(answers)
           /\ pc = "fetch_returned"
           /\ fetched = answers[k]
    /\ (pc = "fetch_returned" /\ fetched # <<>>) =>
         (Len(answers) > 0 /\ fetched = answers[Len(answers)])

\* fetch_bills has returned the bills of the sixth combination after five
\* attempts that yielded nothing.
C1_Witness ==
    /\ pc = "fetch_returned"
    /\ Len(queried) = 6
    /\ fetched # <<>>
    /\ queried[6].search_term = "cryptocurrency"

\* C2: no exception escapes fetch_bills, whatever the responses are; and when
\* fetch_bills has returned without any response having yielded a bill, every
\* combination was tried and the value returned is the empty list.
C2_FailedQueryIsAnEmptyResult ==
    /\ pc # "fetch_raised"
    /\ (pc = "fetch_returned" /\ \A k \in 1..Len(answers) : answers[k] = <<>>) =>
         (fetched = <<>> /\ Len(queried) = Len(PriorityOrder))

(***************************************************************************)
(* Properties of the alert generator and of the per-bill processing.       *)
(***************************************************************************)
\* The bills the per-bill loop works on.
Bills == IF mode = "dag" THEN xcom.fetch_bills ELSE fetched

\* How many bills the loop has finished, and what it recorded for the k-th:
\* the outcome dict in the DAG, the printed line on the command line.
NumDone == IF mode = "dag" THEN Len(processed_bills) ELSE Len(stdout)

StatusOf(k) ==
    IF mode = "dag" THEN processed_bills[k].status
    ELSE IF stdout[k].line = "alert" THEN "processed" ELSE stdout[k].line

AlertOf(k) == IF mode = "dag" THEN processed_bills[k].alert ELSE stdout[k].alert

NumCalls(k, op) ==
    Cardinality({ i \in 1..Len(events) : events[i].bill = k /\ events[i].op = op })

WellFormedAlert(a) ==
    /\ a.kind = "object"
    /\ a.title \notin { MISSING, NULL }
    /\ a.summary \notin { MISSING, NULL }
    /\ a.deadline \notin { MISSING, NULL }
    /\ a.action_required \notin { MISSING, NULL }
    /\ a.severity \notin { MISSING, NULL }

\* C3: every alert generate_compliance_alert has returned (the alert of a
\* 'processed' outcome, the alert the command line printed) is an object with
\* the five keys, each non-null.
C3_AlertGeneratorIsTotal ==
    \A k \in 1..NumDone : StatusOf(k) = "processed" => WellFormedAlert(AlertOf(k))

RaisesWhenProcessed(b) == b.hasSources /\ Len(b.sources) > 0 /\ ~b.sources[1].hasUrl

\* C5: a bill whose processing raised has an outcome with status 'error' and a
\* non-empty message, and the batch is never aborted: when the run is over and
\* the search had returned bills, the loop has gone through all of them.
C5_BadBillNeverAbortsBatch ==
    /\ mode = "dag" =>
         \A k \in 1..Len(processed_bills) :
           RaisesWhenProcessed(xcom.fetch_bills[k]) =>
             /\ processed_bills[k].status = "error"
             /\ processed_bills[k].error \notin { MISSING, "" }
    /\ (RunStatus # "running" /\ Bills # <<>>) => idx > Len(Bills)

\* The part of C5 that the DAG keeps: the same statement for DAG runs alone.
C5_HoldsInDag == mode = "dag" => C5_BadBillNeverAbortsBatch

\* C6: for every bill the loop has finished: without a sources entry the
\* status is 'no_sources' and neither the fetcher nor the generator was called
\* for it; with a first source URL the fetcher was called exactly once, with
\* that URL, and either it returned nothing, the status is 'no_content' and the
\* generator was not called, or the generator was called exactly once and the
\* status is 'processed' with the alert the generator returned and that URL.
C6_PerBillClassification ==
    \A k \in 1..NumDone :
      LET b == Bills[k]
          hasEntry == b.hasSources /\ Len(b.sources) > 0
      IN  /\ ~hasEntry =>
                /\ StatusOf(k) = "no_sources"
                /\ NumCalls(k, "fetch") = 0
                /\ NumCalls(k, "llm") = 0
          /\ (hasEntry /\ b.sources[1].hasUrl) =>
                /\ NumCalls(k, "fetch") = 1
                /\ \A i \in 1..Len(events) :
                     (events[i].bill = k /\ events[i].op = "fetch") =>
                       /\ events[i].arg = b.sources[1].url
                       /\ events[i].got = "" =>
                            (StatusOf(k) = "no_content" /\ NumCalls(k, "llm") = 0)
                       /\ events[i].got # "" =>
                            /\ StatusOf(k) = "processed"
                            /\ NumCalls(k, "llm") = 1
                            /\ mode = "dag" => processed_bills[k].url = b.sources[1].url
                /\ \A i \in 1..Len(events) :
                     (events[i].bill = k /\ events[i].op = "llm") =>
                       AlertOf(k) = GenerateComplianceAlert(events[i].arg, "bill text",
                                      [ raises |-> (events[i].got = RAISED),
                                        content |-> events[i].got ])

\* A batch with a bill without content followed by a processed bill.
C6_Witness ==
    /\ mode = "dag" /\ Len(processed_bills) = 2
    /\ processed_bills[1].status = "no_content"
    /\ processed_bills[2].status = "processed"
    /\ NumCalls(2, "llm") = 1

\* C7: in every outcome, 'processed' has a non-null alert and a url;
\* 'no_sources' and 'no_content' have neither; 'error' has an error message and
\* no alert.
C7_StatusDeterminesFields ==
    \A k \in 1..Len(processed_bills) :
      LET o == processed_bills[k]
      IN  /\ o.status = "processed" => (o.alert # None /\ o.url # MISSING)
          /\ o.status \in { "no_sources", "no_content" } =>
               (o.alert = None /\ o.url = MISSING)
          /\ o.status = "error" => (o.error # MISSING /\ o.alert = None)

\* The search of this run returned the empty list.
SearchReturnedEmpty ==
    IF mode = "dag"
      THEN taskState["fetch_bills"] = "success" /\ xcom.fetch_bills = <<>>
      ELSE pc = "exit" /\ "search" \in externalCalls /\ fetched = <<>> /\ error = ""

\* C8: a run whose search returned the empty list never ends as a success, and
\* produces no outcome.
C8_EmptySearchIsFatal ==
    SearchReturnedEmpty =>
      /\ RunStatus # "success"
      /\ processed_bills = <<>> /\ stdout = <<>>

\* The part of C8 that the command line keeps.
C8_HoldsOnCommandLine ==
    (mode = "cli" /\ SearchReturnedEmpty) => (exit_code = 1 /\ stdout = <<>>)

\* C9: for every finished bill whose model call raised or answered with text
\* that is not JSON (or with no text), the status is 'processed' and the alert
\* is the fixed fallback, its title the bill's title ('Unknown' for a bill
\* without title).
C9_FallbackAlertOnModelFailure ==
    \A k \in 1..NumDone :
      \A i \in 1..Len(events) :
        ( /\ events[i].bill = k /\ events[i].op = "llm"
          /\ events[i].got \in { RAISED, NotJson, NULL } ) =>
            /\ StatusOf(k) = "processed"
            /\ AlertOf(k) =
                 [ kind |-> "object",
                   title |-> IF Bills[k].title = MISSING THEN "Unknown" ELSE Bills[k].title,
                   summary |-> "Unable to generate summary",
                   deadline |-> "Unknown",
                   action_required |-> "Review manually",
                   severity |-> "Unknown" ]

\* The first bill's model call answered with text that is not JSON, and the
\* loop went on to a second bill.
C9_Witness ==
    /\ NumDone = 2
    /\ \E i \in 1..Len(events) :
         events[i].bill = 1 /\ events[i].op = "llm" /\ events[i].got = NotJson
    /\ StatusOf(1) = "processed"
    /\ Bills[1].title = "Bill A"

\* C10: in a run in which a required credential is set nowhere, no search
\* query, content fetch or model invocation is ever issued, fetch_bills is
\* never entered, and the run does not end as a success: the command line
\* exits with code 1.
C10_MissingCredentialAbortsBeforeAnyCall ==
    (\E c \in Credentials : env[c] = "none") =>
      /\ externalCalls = {}
      /\ pc \in { "main", "idle", "exit" }
      /\ RunStatus # "success"
      /\ (mode = "cli" /\ pc = "exit") => exit_code = 1

\* A run without OPENSTATES_KEY that has ended.
C10_Witness ==
    /\ env["OPENSTATES_KEY"] = "none"
    /\ RunStatus = "failed"

(***************************************************************************)
(* Properties of the DAG's scheduling.                                     *)
(***************************************************************************)
\* A task instance has started at least one attempt.
Started(t) == tries[t] > 0

\* The order of the steps, as a sequence.
StepOrder ==
    << "check_environment", "initialize_monitor", "fetch_bills", "process_bills",
       "save_results", "generate_summary", "cleanup" >>

\* C11, as stated: the steps run in the total order of StepOrder, a step
\* starting only when the step before it has finished with success (so the
\* summary never starts before the results are saved), and no two steps are
\* running at the same time.
C11_StepsRunInTotalOrder ==
    /\ \A k \in 1..(Len(StepOrder) - 1) :
         Started(StepOrder[k + 1]) => taskState[StepOrder[k]] = "success"
    /\ \A t, u \in Tasks :
         (taskState[t] = "running" /\ taskState[u] = "running") => t = u

\* The order the dependencies do give: b starts only after a has succeeded.
StepsBefore ==
    { << "check_environment", "initialize_monitor" >>,
      << "initialize_monitor", "fetch_bills" >>,
      << "fetch_bills", "process_bills" >>,
      << "process_bills", "save_results" >>,
      << "process_bills", "generate_summary" >>,
      << "save_results", "cleanup" >>,
      << "generate_summary", "cleanup" >> }

\* C11, amended: a step starts only when every step before it in StepsBefore
\* has finished with success (validation, initialization, search, processing
\* in that order; saving and summary each after processing; cleanup after
\* both), and two steps are running at the same time only if they are the
\* saving of the results and the summary, which are not ordered with respect
\* to each other.
C11_StepsRunInPartialOrder ==
    /\ \A p \in StepsBefore : Started(p[2]) => taskState[p[1]] = "success"
    /\ \A t, u \in Tasks :
         (taskState[t] = "running" /\ taskState[u] = "running" /\ t # u) =>
           { t, u } = { "save_results", "generate_summary" }

\* The summary is being generated while the results are being saved.
C11_Witness ==
    /\ taskState["save_results"] = "running"
    /\ taskState["generate_summary"] = "running"
    /\ xcom.process_bills # <<>>

(***************************************************************************)
(* Pacing.                                                                 *)
(***************************************************************************)
\* C12: in fetch_bills every attempt that does not return bills (an empty or
\* failed query) is followed by exactly one pacing delay and the attempt that
\* returns bills by none.  While the search goes on there have been as many
\* delays as queries, all of them answered without bills; a search that returns
\* bills on its k-th query has waited k-1 delays; a search that returns
\* nothing has issued every combination and waited once per query.  (An attempt
\* whose response makes fetch_bills raise, see C2, ends the search: no attempt
\* follows it and it is followed by no delay.)
C12_OneDelayPerNonReturningAttempt ==
    /\ pc \in { "fetch_bills", "fetch_returned" } =>
         /\ delays \in { Len(queried), Len(queried) - 1 }
         /\ \A n \in 1..delays : answers[n] = <<>>
    /\ pc = "fetch_bills" => delays = Len(queried)
    /\ (pc = "fetch_returned" /\ fetched # <<>>) =>
         /\ delays = Len(queried) - 1
         /\ answers[Len(queried)] = fetched
    /\ (pc = "fetch_returned" /\ fetched = <<>>) =>
         /\ delays = Len(queried)
         /\ Len(queried) = Len(PriorityOrder)

\* fetch_bills returns the bills of its sixth query after five delays.
C12_Witness ==
    /\ pc = "fetch_returned"
    /\ fetched # <<>>
    /\ Len(queried) = 6
    /\ delays = 5
\* The i-th recorded event of the per-bill loop is an external call.
IsExternalCall(i) == events[i].op \in { "fetch", "llm" }

\* C13: whenever two bills in a row each issue an external call (content fetch
\* or model invocation), a pacing delay lies between the first bill's last
\* external call and the second bill's first external call, whatever the
\* status of the first bill.
C13_DelayBetweenConsecutiveBills ==
    \A i, j \in 1..Len(events) :
      ( /\ i < j
        /\ IsExternalCall(i) /\ IsExternalCall(j)
        /\ events[j].bill = events[i].bill + 1 ) =>
        \E s \in (i + 1)..(j - 1) : events[s].op = "sleep"

\* What the command line does: the delay follows the model invocation of a
\* processed bill, and only that.
C13_DelayOnlyAfterProcessedBillOnCommandLine ==
    mode = "cli" =>
      \A s \in 1..Len(events) :
        events[s].op = "sleep" =>
          /\ s > 1
          /\ events[s - 1].op = "llm"
          /\ events[s - 1].bill = events[s].bill
(***************************************************************************)
(* The summary report.                                                     *)
(***************************************************************************)
HasHighAlert(b) == b.alert.severity = "High"

\* The summary s is the one the outcomes bs call for: the high-severity count
\* is the number of outcomes whose alert severity is "High", and the list has
\* exactly those bills, in order, each with its required action.
SummaryMatches(s, bs) ==
    LET high == SelectSeq(bs, HasHighAlert)
    IN  /\ s.total = Len(bs)
        /\ s.high = Len(high)
        /\ Len(s.lines) = Len(high)
        /\ \A n \in 1..Len(high) :
             /\ s.lines[n].title = high[n].title
             /\ s.lines[n].action = high[n].alert.action_required

\* An attempt of generate_summary has ended on a non-empty outcome sequence.
SummaryAttempted ==
    /\ mode = "dag"
    /\ xcom.process_bills # <<>>
    /\ Started("generate_summary")
    /\ taskState["generate_summary"] # "running"

\* C14: for any non-empty outcome sequence the pipeline produces (any mix of
\* processed, no_sources, no_content and error outcomes) summary generation
\* completes without raising and writes a summary whose high-severity count
\* is the number of outcomes with alert severity "High" and which lists
\* exactly those bills with their required action.
C14_SummaryIsWrittenForAnyOutcomes ==
    SummaryAttempted =>
      /\ taskState["generate_summary"] = "success"
      /\ reports.summaries # <<>>
      /\ SummaryMatches(reports.summaries[Len(reports.summaries)], xcom.process_bills)

\* What does hold: when every outcome carries an alert object (every bill was
\* processed and the model answered with a JSON object, or the fallback alert
\* was used) the summary is written and is the right one.
C14_HoldsWhenEveryAlertIsAnObject ==
    ( /\ SummaryAttempted
      /\ \A k \in 1..Len(xcom.process_bills) :
           xcom.process_bills[k].alert.kind = "object" ) =>
      /\ taskState["generate_summary"] = "success"
      /\ reports.summaries # <<>>
      /\ SummaryMatches(reports.summaries[Len(reports.summaries)], xcom.process_bills)

====
